---- MODULE Spec2Model ----
(***************************************************************************)
(* A model of trainapi (src/main.go): the GTFS table loaders, the time     *)
(* normaliser AdjustTime, the calendar evaluator isValidTrip and the two   *)
(* request handlers handleGetTrainInfo and handleGetTrainList.             *)
(*                                                                         *)
(* Go strings are modelled as sequences of one-character strings, so that  *)
(* strings.Split, strconv.Atoi, fmt.Sprintf and time.Parse are computed    *)
(* character by character.  The empty Go string "" is the empty sequence.  *)
(***************************************************************************)
EXTENDS Integers, Sequences, FiniteSets, TLC

VARIABLES
    files,  \* the four gtfs/*.txt sources: name -> [readable, records]
    req,    \* the parameters of the call or request under way
    resp,   \* what the call or request produced
    pc      \* where the run is

vars == <<files, req, resp, pc>>

(***************************************************************************)
(* Strings                                                                 *)
(***************************************************************************)
Digits == <<"0", "1", "2", "3", "4", "5", "6", "7", "8", "9">>

IsDigit(c) == \E d \in 1..10 : Digits[d] = c

DigitVal(c) == (CHOOSE d \in 1..10 : Digits[d] = c) - 1

AllDigits(s) == \A i \in 1..Len(s) : IsDigit(s[i])

RECURSIVE DigitsValue(_)
DigitsValue(s) ==
    IF s = <<>> THEN 0
    ELSE 10 * DigitsValue(SubSeq(s, 1, Len(s) - 1)) + DigitVal(s[Len(s)])

\* strconv.Atoi: an optional sign, then one or more decimal digits.  The
\* range error of Atoi needs 19 digits or more; the fields drawn here are
\* shorter, so it is not modelled.
Atoi(s) ==
    LET signed == s # <<>> /\ s[1] \in {"+", "-"}
        body   == IF signed THEN Tail(s) ELSE s
    IN  IF body # <<>> /\ AllDigits(body)
        THEN [ok |-> TRUE,
              val |-> IF signed /\ s[1] = "-" THEN 0 - DigitsValue(body)
                                               ELSE DigitsValue(body)]
        ELSE [ok |-> FALSE, val |-> 0]

RECURSIVE Itoa(_)
Itoa(n) ==
    IF n < 10 THEN <<Digits[n + 1]>>
    ELSE Itoa(n \div 10) \o <<Digits[(n % 10) + 1]>>

\* fmt.Sprintf("%02d", n): zero padded to a width of two, the sign counted
\* in the width.
Sprintf02d(n) ==
    IF n < 0 THEN <<"-">> \o Itoa(0 - n)
    ELSE IF n < 10 THEN <<"0">> \o Itoa(n)
    ELSE Itoa(n)

\* strings.Split(s, ":")
RECURSIVE Split(_)
Split(s) ==
    IF s = <<>> THEN << <<>> >>
    ELSE LET rest == Split(Tail(s))
         IN  IF Head(s) = ":" THEN << <<>> >> \o rest
             ELSE << <<Head(s)>> \o Head(rest) >> \o Tail(rest)

RECURSIVE JoinColon(_)
JoinColon(parts) ==
    IF Len(parts) = 0 THEN <<>>
    ELSE IF Len(parts) = 1 THEN parts[1]
    ELSE parts[1] \o <<":">> \o JoinColon(Tail(parts))

(***************************************************************************)
(* AdjustTime                                                              *)
(***************************************************************************)
\* The function with its guard dropped: 24 is subtracted from every hour.
AdjustTimeNoGuard(t) ==
    LET parts == Split(t)
    IN  IF Len(parts) # 3 THEN t
        ELSE LET h == Atoi(parts[1])
             IN  IF ~h.ok THEN t
                 ELSE Sprintf02d(h.val - 24) \o <<":">> \o parts[2]
                          \o <<":">> \o parts[3]

AdjustTime(t) ==
    LET parts == Split(t)
    IN  IF Len(parts) # 3 THEN t
        ELSE LET h == Atoi(parts[1])
             IN  IF ~h.ok THEN t
                 ELSE LET hours == IF h.val >= 24 THEN h.val - 24 ELSE h.val
                      IN  Sprintf02d(hours) \o <<":">> \o parts[2]
                              \o <<":">> \o parts[3]

(***************************************************************************)
(* The table loaders.  A source is [readable, records]: whether os.Open    *)
(* succeeds, and the records encoding/csv reads from it, the header row    *)
(* first.  A load ends "ok" with its table, "err" with a returned error,   *)
(* or "panic" when the code indexes past the end of a slice.               *)
(***************************************************************************)
FileNames == {"stops", "stop_times", "trips", "calendar"}

LoadErr == [kind |-> "err", table |-> <<>>]

LoadPanic == [kind |-> "panic", table |-> <<>>]

LoadOk(t) == [kind |-> "ok", table |-> t]

\* os.Open, then csv.Reader.ReadAll with FieldsPerRecord left 0: every
\* record must have as many fields as the first one.
ReadAll(f) ==
    IF ~f.readable THEN [err |-> TRUE, records |-> <<>>]
    ELSE IF \E i \in 1..Len(f.records) : Len(f.records[i]) # Len(f.records[1])
    THEN [err |-> TRUE, records |-> <<>>]
    ELSE [err |-> FALSE, records |-> f.records]

\* loadStops: a map keyed by stop_id, a later row replacing an earlier one
\* with the same id; a row of fewer than four fields is skipped.
loadStops(f) ==
    LET r == ReadAll(f)
    IN  IF r.err THEN LoadErr
        ELSE IF Len(r.records) = 0 THEN LoadPanic
        ELSE LET rows == SelectSeq(Tail(r.records), LAMBDA rec : Len(rec) >= 4)
                 ids  == { rows[i][1] : i \in 1..Len(rows) }
                 last(id) == CHOOSE i \in 1..Len(rows) :
                                /\ rows[i][1] = id
                                /\ \A j \in 1..Len(rows) : rows[j][1] = id => j <= i
             IN  LoadOk([id \in ids |->
                          [StopID |-> rows[last(id)][1], StopName |-> rows[last(id)][2],
                           Lat |-> rows[last(id)][3], Lon |-> rows[last(id)][4]]])

\* loadStopTimes: record[4] is read from every row.
loadStopTimes(f) ==
    LET r == ReadAll(f)
    IN  IF r.err THEN LoadErr
        ELSE IF Len(r.records) = 0 THEN LoadPanic
        ELSE LET rows == Tail(r.records)
             IN  IF \E i \in 1..Len(rows) : Len(rows[i]) < 5 THEN LoadPanic
                 ELSE LoadOk([i \in 1..Len(rows) |->
                          [TripID |-> rows[i][1], StopID |-> rows[i][4],
                           ArrivalTime |-> rows[i][2], DepartureTime |-> rows[i][3],
                           StopSequence |-> Atoi(rows[i][5]).val]])

\* loadTrips: record[2] is read from every row.
loadTrips(f) ==
    LET r == ReadAll(f)
    IN  IF r.err THEN LoadErr
        ELSE IF Len(r.records) = 0 THEN LoadPanic
        ELSE LET rows == Tail(r.records)
             IN  IF \E i \in 1..Len(rows) : Len(rows[i]) < 3 THEN LoadPanic
                 ELSE LoadOk([i \in 1..Len(rows) |->
                          [TripID |-> rows[i][3], RouteID |-> rows[i][1],
                           ServiceID |-> rows[i][2]]])

One == <<"1">>

\* loadCalendar: record[9] is read from every row; Weekdays[1] is Monday's
\* column and Weekdays[7] Sunday's (the Go array's indices 0 to 6).
loadCalendar(f) ==
    LET r == ReadAll(f)
    IN  IF r.err THEN LoadErr
        ELSE IF Len(r.records) = 0 THEN LoadPanic
        ELSE LET rows == Tail(r.records)
             IN  IF \E i \in 1..Len(rows) : Len(rows[i]) < 10 THEN LoadPanic
                 ELSE LoadOk([i \in 1..Len(rows) |->
                          [ServiceID |-> rows[i][1],
                           StartDate |-> rows[i][9], EndDate |-> rows[i][10],
                           Weekdays  |-> [d \in 1..7 |-> rows[i][d + 1] = One]]])

Load(name, f) ==
    CASE name = "stops"      -> loadStops(f)
      [] name = "stop_times" -> loadStopTimes(f)
      [] name = "trips"      -> loadTrips(f)
      [] name = "calendar"   -> loadCalendar(f)

\* The number of fields each loader reads from a row.
Columns(name) ==
    CASE name = "stops"      -> 4
      [] name = "stop_times" -> 5
      [] name = "trips"      -> 3
      [] name = "calendar"   -> 10

Unreadable == [readable |-> FALSE, records |-> <<>>]

Source(records) == [readable |-> TRUE, records |-> records]

MaxRecords == 3

\* Field j of record i of a generated source.
Field(i, j) == Itoa(100 * i + j)

\* The sources of a loader: unreadable, or up to MaxRecords records, each
\* one field short of the schema, exactly as wide, or one field wider.
SourcesOf(name) ==
    {Unreadable} \cup
    UNION { { Source([i \in 1..n |-> [j \in 1..(Columns(name) + w[i]) |-> Field(i, j)]]) :
                w \in [1..n -> {-1, 0, 1}] } : n \in 0..MaxRecords }

InitLoad ==
    /\ req \in { [file |-> n] : n \in FileNames }
    /\ \E src \in SourcesOf(req.file) :
           files = [n \in FileNames |-> IF n = req.file THEN src ELSE Unreadable]
    /\ resp = <<>>
    /\ pc = "call"

LoadTable ==
    /\ pc = "call"
    /\ resp' = Load(req.file, files[req.file])
    /\ pc' = "loaded"
    /\ UNCHANGED <<files, req>>

NextLoad == LoadTable

SpecLoad == InitLoad /\ [][NextLoad]_vars

\* C4: every load ends with the full table or with a load error; a source
\* with no header row, or whose records have fewer fields than the schema
\* requires, ends with a load error; no load panics and no row is dropped.
C4_LoadOutcome ==
    pc = "loaded" =>
        LET recs == files[req.file].records
        IN  /\ resp.kind \in {"ok", "err"}
            /\ (Len(recs) = 0 \/ \E i \in 1..Len(recs) : Len(recs[i]) < Columns(req.file))
                   => resp.kind = "err"
            /\ resp.kind = "ok" => Cardinality(DOMAIN resp.table) = Len(recs) - 1

(***************************************************************************)
(* Dates.  A time.Time at midnight UTC is modelled by its day number, the  *)
(* days since 0001-01-01, which is the zero time.Time and a Monday.        *)
(***************************************************************************)
IsLeap(y) == (y % 4 = 0 /\ y % 100 # 0) \/ y % 400 = 0

DaysIn(m, y) ==
    IF m = 2 THEN (IF IsLeap(y) THEN 29 ELSE 28)
    ELSE IF m \in {4, 6, 9, 11} THEN 30 ELSE 31

RECURSIVE DaysBeforeMonth(_, _)
DaysBeforeMonth(m, y) ==
    IF m = 1 THEN 0 ELSE DaysBeforeMonth(m - 1, y) + DaysIn(m - 1, y)

DayNumber(y, m, d) ==
    365 * (y - 1) + ((y - 1) \div 4) - ((y - 1) \div 100) + ((y - 1) \div 400)
        + DaysBeforeMonth(m, y) + (d - 1)

ZeroTime == [ok |-> FALSE, day |-> 0]

\* The date of a four-digit year, a two-digit month and a two-digit day;
\* time.Parse returns the zero Time with its error.
ParseYMD(ys, ms, ds) ==
    IF ~(Len(ys) = 4 /\ Len(ms) = 2 /\ Len(ds) = 2
            /\ AllDigits(ys) /\ AllDigits(ms) /\ AllDigits(ds))
    THEN ZeroTime
    ELSE LET y == DigitsValue(ys)
             m == DigitsValue(ms)
             d == DigitsValue(ds)
         IN  IF m \in 1..12 /\ d >= 1 /\ d <= DaysIn(m, y)
             THEN [ok |-> TRUE, day |-> DayNumber(y, m, d)]
             ELSE ZeroTime

\* time.Parse("20060102", s)
ParseCompactDate(s) ==
    IF Len(s) # 8 THEN ZeroTime
    ELSE ParseYMD(SubSeq(s, 1, 4), SubSeq(s, 5, 6), SubSeq(s, 7, 8))

\* time.Parse("2006-01-02", s)
ParseISODate(s) ==
    IF Len(s) # 10 \/ s[5] # "-" \/ s[8] # "-" THEN ZeroTime
    ELSE ParseYMD(SubSeq(s, 1, 4), SubSeq(s, 6, 7), SubSeq(s, 9, 10))

\* time.Time.Weekday: Sunday = 0, Monday = 1, ..., Saturday = 6.
Weekday(day) == (day + 1) % 7

(***************************************************************************)
(* isValidTrip                                                             *)
(***************************************************************************)
\* The loop of isValidTrip from calendar entry i on.  The errors of
\* time.Parse are dropped, so an unparsable bound is the zero Time.  The
\* Go array Weekdays is indexed by date.Weekday(), here shifted by one
\* for the sequence that starts at 1.
RECURSIVE isValidTripFrom(_, _, _, _)
isValidTripFrom(i, trip, date, calendars) ==
    IF i > Len(calendars) THEN FALSE
    ELSE LET cal == calendars[i]
         IN  IF cal.ServiceID = trip.ServiceID
             THEN LET startDate == ParseCompactDate(cal.StartDate).day
                      endDate   == ParseCompactDate(cal.EndDate).day
                  IN  IF date < startDate \/ date > endDate
                      THEN isValidTripFrom(i + 1, trip, date, calendars)
                      ELSE IF cal.Weekdays[Weekday(date) + 1] THEN TRUE
                      ELSE isValidTripFrom(i + 1, trip, date, calendars)
             ELSE isValidTripFrom(i + 1, trip, date, calendars)

isValidTrip(trip, date, calendars) == isValidTripFrom(1, trip, date, calendars)

(***************************************************************************)
(* Identifiers, dates and calendar rows the runs draw from.                *)
(***************************************************************************)
WK == <<"W", "K">>
XX == <<"X", "X">>
T1 == <<"T", "1">>
T2 == <<"T", "2">>
T9 == <<"T", "9">>
R1 == <<"R", "1">>
Zero == <<"0">>

\* 2024-06-10 is a Monday, 2024-06-16 the Sunday after it.
JuneDay(d) == <<"2", "0", "2", "4", "-", "0", "6", "-">> \o Sprintf02d(d)

WeekDates == { JuneDay(d) : d \in 10..16 }

Header(n) == [j \in 1..n |-> <<"h">>]

\* Monday to Sunday columns of calendar.txt.
MonToFri == <<One, One, One, One, One, Zero, Zero>>
SatSun   == <<Zero, Zero, Zero, Zero, Zero, One, One>>
MonOnly  == <<One, Zero, Zero, Zero, Zero, Zero, Zero>>
SunOnly  == <<Zero, Zero, Zero, Zero, Zero, Zero, One>>

DayColumns == {MonToFri, SatSun, MonOnly, SunOnly}

Jan01 == <<"2", "0", "2", "4", "0", "1", "0", "1">>
Jun11 == <<"2", "0", "2", "4", "0", "6", "1", "1">>
Jun13 == <<"2", "0", "2", "4", "0", "6", "1", "3">>
Dec31 == <<"2", "0", "2", "4", "1", "2", "3", "1">>
\* Not dates of the layout 20060102: dashes, and a 31st of February.
DashedJan01 == <<"2", "0", "2", "4", "-", "0", "1", "-", "0", "1">>
Feb31 == <<"2", "0", "2", "4", "0", "2", "3", "1">>

StartDates == {Jan01, Jun13, DashedJan01}
EndDates == {Dec31, Jun11, Feb31}

CalendarRow(svc, days, start, end) == <<svc>> \o days \o <<start, end>>

CalendarRows ==
    { CalendarRow(svc, days, start, end) :
        svc \in {WK, XX}, days \in DayColumns, start \in StartDates, end \in EndDates }

MaxCalendars == 2

RECURSIVE SeqsUpTo(_, _)
SeqsUpTo(S, n) ==
    IF n = 0 THEN { <<>> }
    ELSE LET shorter == SeqsUpTo(S, n - 1)
         IN  shorter \cup { Append(q, x) : q \in { k \in shorter : Len(k) = n - 1 }, x \in S }

InitCal ==
    /\ \E rows \in SeqsUpTo(CalendarRows, MaxCalendars) :
           files = [n \in FileNames |->
                      IF n = "calendar" THEN Source(<<Header(10)>> \o rows) ELSE Unreadable]
    /\ req \in { [trip |-> [TripID |-> T1, RouteID |-> R1, ServiceID |-> WK], date |-> d] :
                   d \in WeekDates }
    /\ resp = <<>>
    /\ pc = "call"

\* isValidTrip on the loaded calendar, for the trip and date of the run.
CheckTrip ==
    /\ pc = "call"
    /\ resp' = isValidTrip(req.trip, ParseISODate(req.date).day,
                           loadCalendar(files["calendar"]).table)
    /\ pc' = "checked"
    /\ UNCHANGED <<files, req>>

NextCal == CheckTrip

SpecCal == InitCal /\ [][NextCal]_vars

\* The weekday of a day number with Monday = 0, ..., Sunday = 6.
MondayIndex(day) == day % 7

CalendarData == Tail(files["calendar"].records)

Parsable(s) == ParseCompactDate(s).ok

\* Calendar row r authorizes day number D for service svc as the calendar
\* rule is written: in range, and the column of D's own weekday is set.
Authorizes(r, svc, D) ==
    /\ r[1] = svc
    /\ Parsable(r[9]) /\ Parsable(r[10])
    /\ ParseCompactDate(r[9]).day <= D /\ D <= ParseCompactDate(r[10]).day
    /\ r[2 + MondayIndex(D)] = One

\* C1: isValidTrip(T, D, calendars) is true iff some Calendar entry of T's
\* service has start_date <= D <= end_date and the bit of D's own weekday
\* set, the weekday vector being Monday-indexed.  Stated for calendars
\* whose dates all parse.
C1_ValidIff ==
    (pc = "checked"
        /\ \A i \in 1..Len(CalendarData) :
              Parsable(CalendarData[i][9]) /\ Parsable(CalendarData[i][10]))
    => (resp <=> \E i \in 1..Len(CalendarData) :
                    Authorizes(CalendarData[i], req.trip.ServiceID,
                               ParseISODate(req.date).day))

\* C7: a Calendar entry whose start_date or end_date cannot be parsed never
\* authorizes a trip: a trip whose only matching entries have an unparsable
\* start_date or end_date is valid on no date.
C7_UnparsableSkipped ==
    (pc = "checked"
        /\ \A i \in 1..Len(CalendarData) :
              CalendarData[i][1] = req.trip.ServiceID
                  => ~Parsable(CalendarData[i][9]) \/ ~Parsable(CalendarData[i][10]))
    => resp = FALSE

(***************************************************************************)
(* The request handlers.  A response is the HTTP status written and the    *)
(* body encoded; a panic of the handler leaves no response.                *)
(***************************************************************************)
NoBody == <<>>

Reply(status, body) == [status |-> status, body |-> body]

\* The four loads in the handlers' order; the first one that fails ends
\* the request.
LoadAll(fs) ==
    LET st == loadStops(fs["stops"])
        tm == loadStopTimes(fs["stop_times"])
        tr == loadTrips(fs["trips"])
        ca == loadCalendar(fs["calendar"])
        all == <<st, tm, tr, ca>>
        bad == { i \in 1..4 : all[i].kind # "ok" }
        first == CHOOSE i \in bad : \A j \in bad : i <= j
    IN  [kind      |-> IF bad = {} THEN "ok" ELSE all[first].kind,
         stops     |-> st.table, stopTimes |-> tm.table,
         trips     |-> tr.table, calendars |-> ca.table]

LoadFailure(kind) ==
    IF kind = "err" THEN Reply("StatusInternalServerError", NoBody)
    ELSE Reply("panic", NoBody)

NA == <<"N", "/", "A">>

\* A time surfaced as it is, the empty one included.
PlaceholderOmitted(t) == t

\* The placeholder of an empty time.
Placeholder(t) == IF t = <<>> THEN NA ELSE t

\* A trip kept for its id alone, whatever the calendar says.
TripMatchesIdOnly(trip, trainNumber, date, calendars) ==
    trip.TripID = trainNumber

\* The filter of handleGetTrainInfo.
TripMatches(trip, trainNumber, date, calendars) ==
    trip.TripID = trainNumber /\ isValidTrip(trip, date, calendars)

\* stops[id]: the zero Stop when the map has no such key.
StopOf(stops, id) ==
    IF id \in DOMAIN stops THEN stops[id]
    ELSE [StopID |-> <<>>, StopName |-> <<>>, Lat |-> <<>>, Lon |-> <<>>]

\* The entries one matching trip adds: one per stop-time row of its id.
StopsOfTrip(trip, stopTimes, stops) ==
    LET rows == SelectSeq(stopTimes, LAMBDA st : st.TripID = trip.TripID)
    IN  [k \in 1..Len(rows) |->
            [StopName      |-> StopOf(stops, rows[k].StopID).StopName,
             ArrivalTime   |-> Placeholder(AdjustTime(rows[k].ArrivalTime)),
             DepartureTime |-> Placeholder(AdjustTime(rows[k].DepartureTime))]]

RECURSIVE StopsWithTimes(_, _, _)
StopsWithTimes(matchingTrips, stopTimes, stops) ==
    IF matchingTrips = <<>> THEN <<>>
    ELSE StopsOfTrip(Head(matchingTrips), stopTimes, stops)
             \o StopsWithTimes(Tail(matchingTrips), stopTimes, stops)

handleGetTrainInfo(trainNumber, date, fs) ==
    LET parsedDate == ParseISODate(date)
        t == LoadAll(fs)
    IN  IF ~parsedDate.ok THEN Reply("StatusBadRequest", NoBody)
        ELSE IF t.kind # "ok" THEN LoadFailure(t.kind)
        ELSE LET matchingTrips ==
                     SelectSeq(t.trips, LAMBDA trip :
                         TripMatches(trip, trainNumber, parsedDate.day, t.calendars))
             IN  IF Len(matchingTrips) = 0 THEN Reply("StatusNotFound", NoBody)
                 ELSE Reply("StatusOK",
                            [TrainNumber |-> trainNumber, Date |-> date,
                             Stops |-> StopsWithTimes(matchingTrips, t.stopTimes, t.stops)])

\* The loop over the stops map, in the order the map is ranged over: each
\* match overwrites the id found so far.
RECURSIVE ResolveFrom(_, _, _, _, _)
ResolveFrom(i, order, stops, name, found) ==
    IF i > Len(order) THEN found
    ELSE ResolveFrom(i + 1, order, stops, name,
                     IF stops[order[i]].StopName = name
                     THEN stops[order[i]].StopID ELSE found)

findStopIndex(tripID, stopID, stopTimes) ==
    LET hits == { i \in 1..Len(stopTimes) :
                    stopTimes[i].TripID = tripID /\ stopTimes[i].StopID = stopID }
    IN  IF hits = {} THEN -1
        ELSE (CHOOSE i \in hits : \A j \in hits : i <= j) - 1

\* A scan that never stops early.
ScanDoneNever(hasDeparture, hasArrival) == FALSE

\* The early exit of the scan over the stop times.
ScanDone(hasDeparture, hasArrival) == hasDeparture /\ hasArrival

\* An order check that lets equal indices through.
StopOrderLoose(departureIndex, arrivalIndex) == departureIndex <= arrivalIndex

\* The order check on the two indices.
StopOrderOK(departureIndex, arrivalIndex) == departureIndex < arrivalIndex

RECURSIVE ScanFrom(_, _, _, _, _, _)
ScanFrom(i, tripID, departureID, arrivalID, stopTimes, st) ==
    IF i > Len(stopTimes) THEN st
    ELSE LET row == stopTimes[i]
             own == row.TripID = tripID
             s1  == IF own /\ row.StopID = departureID
                    THEN [st EXCEPT !.hasDeparture = TRUE,
                                    !.departureTime = AdjustTime(row.DepartureTime)]
                    ELSE st
             s2  == IF own /\ row.StopID = arrivalID
                    THEN [s1 EXCEPT !.hasArrival = TRUE,
                                    !.arrivalTime = AdjustTime(row.ArrivalTime)]
                    ELSE s1
         IN  IF ScanDone(s2.hasDeparture, s2.hasArrival) THEN s2
             ELSE ScanFrom(i + 1, tripID, departureID, arrivalID, stopTimes, s2)

ScanStart ==
    [hasDeparture |-> FALSE, hasArrival |-> FALSE,
     departureTime |-> <<>>, arrivalTime |-> <<>>]

\* The loop over the trips from trip i on: the trains found.
RECURSIVE TrainsFrom(_, _, _, _, _)
TrainsFrom(i, t, date, departureID, arrivalID) ==
    IF i > Len(t.trips) THEN <<>>
    ELSE LET trip == t.trips[i]
             rest == TrainsFrom(i + 1, t, date, departureID, arrivalID)
         IN  IF ~isValidTrip(trip, date, t.calendars) THEN rest
             ELSE LET s == ScanFrom(1, trip.TripID, departureID, arrivalID,
                                    t.stopTimes, ScanStart)
                  IN  IF /\ s.hasDeparture /\ s.hasArrival
                         /\ s.departureTime # <<>> /\ s.arrivalTime # <<>>
                         /\ StopOrderOK(findStopIndex(trip.TripID, departureID, t.stopTimes),
                                        findStopIndex(trip.TripID, arrivalID, t.stopTimes))
                      THEN << [TripID |-> trip.TripID,
                               DepartureTime |-> s.departureTime,
                               ArrivalTime |-> s.arrivalTime] >> \o rest
                      ELSE rest

\* order is the order in which this run ranges over the stops map.  The
\* record also carries the handler's departureID and arrivalID.
handleGetTrainList(departureStation, arrivalStation, date, fs, order) ==
    LET parsedDate == ParseISODate(date)
        t == LoadAll(fs)
        none == [departureID |-> <<>>, arrivalID |-> <<>>]
    IN  IF ~parsedDate.ok THEN Reply("StatusBadRequest", NoBody) @@ none
        ELSE IF t.kind # "ok" THEN LoadFailure(t.kind) @@ none
        ELSE LET departureID == ResolveFrom(1, order, t.stops, departureStation, <<>>)
                 arrivalID   == ResolveFrom(1, order, t.stops, arrivalStation, <<>>)
                 ids == [departureID |-> departureID, arrivalID |-> arrivalID]
             IN  IF departureID = <<>> \/ arrivalID = <<>>
                 THEN Reply("StatusNotFound", NoBody) @@ ids
                 ELSE LET trainsWithStops ==
                              TrainsFrom(1, t, parsedDate.day, departureID, arrivalID)
                      IN  IF Len(trainsWithStops) = 0
                          THEN Reply("StatusNotFound", NoBody) @@ ids
                          ELSE Reply("StatusOK",
                                     [DepartureStation |-> departureStation,
                                      ArrivalStation |-> arrivalStation,
                                      Date |-> date,
                                      Trains |-> trainsWithStops]) @@ ids

\* The orders in which a range over the stops map may visit its keys: the
\* Go runtime fixes none.
MapOrders(fs) ==
    LET st == loadStops(fs["stops"])
    IN  IF st.kind # "ok" THEN { <<>> }
        ELSE LET keys == DOMAIN st.table
                 n == Cardinality(keys)
             IN  { o \in [1..n -> keys] : \A i, j \in 1..n : i # j => o[i] # o[j] }

(***************************************************************************)
(* The feeds and requests of the handler runs.                             *)
(***************************************************************************)
S1 == <<"S", "1">>
S2 == <<"S", "2">>
Central == <<"C", "e", "n", "t", "r", "a", "l">>
North == <<"N", "o", "r", "t", "h">>
Nowhere == <<"N", "o", "w", "h", "e", "r", "e">>

StopRow(id, name) == <<id, name, <<"4", "5">>, <<"2", "5">>>>

\* Unique names; two stops named Central; a stop_id (S1) given twice and
\* no row for S2.
StopFiles ==
    { Source(<<Header(4), StopRow(S1, Central), StopRow(S2, North)>>),
      Source(<<Header(4), StopRow(S1, Central), StopRow(S2, Central)>>),
      Source(<<Header(4), StopRow(S1, North), StopRow(S1, Central)>>) }

HMS(h, mm) == Sprintf02d(h) \o <<":">> \o mm \o <<":", "0", "0">>

\* The times of stop_times.txt row i: hours 22, 23, 24, 25, ...; every
\* third row lacks its arrival time, every third its departure time.
ArrivalOf(i) == IF i % 3 = 2 THEN <<>> ELSE HMS(21 + i, <<"3", "0">>)

DepartureOf(i) == IF i % 3 = 0 THEN <<>> ELSE HMS(21 + i, <<"3", "5">>)

\* stop_sequence runs against the row order.
StopTimeRow(trip, stop, i) == <<trip, ArrivalOf(i), DepartureOf(i), stop, Itoa(9 - i)>>

MaxStopTimes == 3

StopTimeFiles ==
    UNION { { Source(<<Header(5)>> \o [i \in 1..n |-> StopTimeRow(c[i][1], c[i][2], i)]) :
                c \in [1..n -> {T1, T2} \X {S1, S2}] } : n \in 0..MaxStopTimes }

TripRow(svc, trip) == <<R1, svc, trip>>

MaxTrips == 2

TripFiles ==
    { Source(<<Header(3)>> \o rows) :
        rows \in SeqsUpTo({TripRow(WK, T1), TripRow(XX, T2)}, MaxTrips) }

\* WK runs Monday to Friday and XX on Saturday and Sunday, all of 2024.
CalendarFile ==
    Source(<<Header(10), CalendarRow(WK, MonToFri, Jan01, Dec31),
                         CalendarRow(XX, SatSun, Jan01, Dec31)>>)

Feeds ==
    { [n \in FileNames |->
          CASE n = "stops"      -> st
            [] n = "stop_times" -> tm
            [] n = "trips"      -> tr
            [] n = "calendar"   -> CalendarFile] :
        st \in StopFiles, tm \in StopTimeFiles, tr \in TripFiles }

\* One feed with one of its files unreadable, or empty.
BrokenFeeds ==
    LET base == CHOOSE f \in Feeds : Len(f["stop_times"].records) = 2
                                     /\ Len(f["trips"].records) = 2
    IN  { [base EXCEPT ![n] = src] : n \in FileNames, src \in {Unreadable, Source(<<>>)} }

\* A Monday, a Saturday, and a date of the wrong layout.
RequestDates == { JuneDay(10), JuneDay(15), Jun11 }

Init ==
    /\ files \in Feeds \cup BrokenFeeds
    /\ req = <<>>
    /\ resp = <<>>
    /\ pc = "idle"

GetTrainInfo ==
    /\ pc = "idle"
    /\ \E trainNumber \in {T1, T2, T9}, date \in RequestDates :
          /\ req' = [trainNumber |-> trainNumber, date |-> date]
          /\ resp' = handleGetTrainInfo(trainNumber, date, files)
    /\ pc' = "info"
    /\ UNCHANGED files

GetTrainList ==
    /\ pc = "idle"
    /\ \E arrivalStation \in {North, Central, Nowhere}, date \in RequestDates,
          order \in MapOrders(files) :
          /\ req' = [departureStation |-> Central, arrivalStation |-> arrivalStation,
                     date |-> date]
          /\ resp' = handleGetTrainList(Central, arrivalStation, date, files, order)
    /\ pc' = "list"
    /\ UNCHANGED files

Next == GetTrainInfo \/ GetTrainList

Spec == Init /\ [][Next]_vars

(***************************************************************************)
(* The claims about the handlers, stated on the rows of the source files.  *)
(***************************************************************************)
StopData == Tail(files["stops"].records)
StopTimeData == Tail(files["stop_times"].records)
TripData == Tail(files["trips"].records)

Loaded == LoadAll(files).kind = "ok"

\* Row i of stop_times.txt is a visit of trip to stop.
Visit(i, trip, stop) == StopTimeData[i][1] = trip /\ StopTimeData[i][4] = stop

Visits(trip, stop) == { i \in 1..Len(StopTimeData) : Visit(i, trip, stop) }

Least(S) == CHOOSE i \in S : \A j \in S : i <= j

Greatest(S) == CHOOSE i \in S : \A j \in S : j <= i

Returned == pc = "list" /\ resp.status = "StatusOK"

\* C2: every trip the station-pair search returns has its departure stop
\* at a row strictly earlier than the row of its arrival stop; a trip
\* whose arrival-stop row comes at or before its departure-stop row (the
\* departure station being the arrival station included) is not returned.
C2_DepartureBeforeArrival ==
    Returned =>
        \A k \in 1..Len(resp.body.Trains) :
            LET trip == resp.body.Trains[k].TripID
            IN  \E i \in Visits(trip, resp.departureID) :
                    /\ \E j \in Visits(trip, resp.arrivalID) : i < j
                    /\ \A j \in Visits(trip, resp.arrivalID) : i < j

\* Two trips are returned, each with its departure row before its
\* arrival row, out of a stop-time table of three rows.
C2_Witness ==
    /\ Returned
    /\ Len(resp.body.Trains) = 2
    /\ Len(StopTimeData) = 3
    /\ resp.departureID # resp.arrivalID

\* C8 as stated: the reported departure time is the normalized
\* departure_time of the first row of the trip at the departure stop, and
\* the reported arrival time the normalized arrival_time of the first row
\* of the trip at the arrival stop: the rows the order check compares.
C8_FirstRows ==
    Returned =>
        \A k \in 1..Len(resp.body.Trains) :
            LET train == resp.body.Trains[k]
                d == Least(Visits(train.TripID, resp.departureID))
                a == Least(Visits(train.TripID, resp.arrivalID))
            IN  /\ train.DepartureTime = AdjustTime(StopTimeData[d][3])
                /\ train.ArrivalTime = AdjustTime(StopTimeData[a][2])

\* C8 amended: the reported arrival time is the normalized arrival_time of
\* the first row of the trip at the arrival stop, and the reported
\* departure time is the normalized departure_time of the last row of the
\* trip at the departure stop that precedes that arrival row.
C8_LastDepartureBeforeArrival ==
    Returned =>
        \A k \in 1..Len(resp.body.Trains) :
            LET train == resp.body.Trains[k]
                a == Least(Visits(train.TripID, resp.arrivalID))
                d == Greatest({ i \in Visits(train.TripID, resp.departureID) : i < a })
            IN  /\ train.DepartureTime = AdjustTime(StopTimeData[d][3])
                /\ train.ArrivalTime = AdjustTime(StopTimeData[a][2])

\* A returned trip visits the departure stop twice before the arrival stop.
C8_Witness ==
    /\ Returned
    /\ \E k \in 1..Len(resp.body.Trains) :
          LET trip == resp.body.Trains[k].TripID
              a == Least(Visits(trip, resp.arrivalID))
          IN  Cardinality({ i \in Visits(trip, resp.departureID) : i < a }) >= 2

\* The stop_id of the last row of stops.txt that carries the name, among
\* the rows the loaded table keeps (the last row of each stop_id).
LastNamed(name) ==
    LET kept == { i \in 1..Len(StopData) :
                    /\ StopData[i][2] = name
                    /\ \A j \in 1..Len(StopData) : StopData[j][1] = StopData[i][1] => j <= i }
    IN  IF kept = {} THEN <<>> ELSE StopData[Greatest(kept)][1]

\* C9: the station-pair search is a function of the tables and the
\* parameters: a station name resolves to the last stop of that name in
\* stop-table row order, also when several stops share the name.
C9_LastInRowOrder ==
    (pc = "list" /\ resp.status \in {"StatusOK", "StatusNotFound"})
        => /\ resp.departureID = LastNamed(req.departureStation)
           /\ resp.arrivalID = LastNamed(req.arrivalStation)

\* Row i of trips.txt has the requested id and isValidTrip accepts it on
\* the requested date.
MatchingRow(i) ==
    /\ TripData[i][3] = req.trainNumber
    /\ isValidTrip([TripID |-> TripData[i][3], RouteID |-> TripData[i][1],
                    ServiceID |-> TripData[i][2]],
                   ParseISODate(req.date).day, loadCalendar(files["calendar"]).table)

\* C5: the itinerary query answers not found, with no stop list, whenever
\* no trip row has the requested id and is valid on the requested date.
C5_NotFound ==
    (pc = "info" /\ ParseISODate(req.date).ok /\ Loaded
        /\ ~\E i \in 1..Len(TripData) : MatchingRow(i))
    => resp = Reply("StatusNotFound", NoBody)

\* Not found for an id that is in the trip table, on a trip that does not
\* run on the date.
C5_Witness ==
    /\ pc = "info"
    /\ resp.status = "StatusNotFound"
    /\ \E i \in 1..Len(TripData) : TripData[i][3] = req.trainNumber

\* The name of the stop a stop_id refers to: that of its last row, empty
\* when stops.txt has no row for it.
NameOf(id) ==
    LET own == { i \in 1..Len(StopData) : StopData[i][1] = id }
    IN  IF own = {} THEN <<>> ELSE StopData[Greatest(own)][2]

Shown(t) == IF AdjustTime(t) = <<>> THEN NA ELSE AdjustTime(t)

\* C10: on success the itinerary holds, for each trip row that matches the
\* id and is valid on the date, in trip-table order, one entry per
\* stop-time row of that trip_id, in stop-time row order; an entry has the
\* name of the row's stop and the row's two times after AdjustTime, an
\* empty time shown as "N/A".
C10_Itinerary ==
    (pc = "info" /\ resp.status = "StatusOK") =>
        LET m == Cardinality({ i \in 1..Len(TripData) : MatchingRow(i) })
            own == { j \in 1..Len(StopTimeData) : StopTimeData[j][1] = req.trainNumber }
            n == Cardinality(own)
            nth(k) == CHOOSE j \in own : Cardinality({ x \in own : x < j }) = k - 1
            entry(j) == [StopName      |-> NameOf(StopTimeData[j][4]),
                         ArrivalTime   |-> Shown(StopTimeData[j][2]),
                         DepartureTime |-> Shown(StopTimeData[j][3])]
        IN  /\ Len(resp.body.Stops) = m * n
            /\ \A p \in 1..(m * n) : resp.body.Stops[p] = entry(nth(((p - 1) % n) + 1))

\* Two trip rows match, the trip has two stop-time rows or more, and one
\* of the times shown is the placeholder.
C10_Witness ==
    /\ pc = "info"
    /\ resp.status = "StatusOK"
    /\ Cardinality({ i \in 1..Len(TripData) : MatchingRow(i) }) = 2
    /\ Len(resp.body.Stops) >= 4
    /\ \E p \in 1..Len(resp.body.Stops) : resp.body.Stops[p].ArrivalTime = NA

NoFiles == <<>>

\* The hour fields and the minute and second fields the inputs are built of.
HourFields ==
    { <<>>, <<"0">>, <<"5">>, <<"0", "9">>, <<"2", "3">>, <<"2", "4">>,
      <<"2", "5">>, <<"4", "7">>, <<"4", "8">>, <<"1", "2", "4">>,
      <<"-", "5">>, <<"+", "7">>, <<"b", "a", "d">>, <<"1", "x">> }

OtherFields == { <<>>, <<"0", "0">>, <<"1", "0">>, <<"x">> }

MaxParts == 4

RECURSIVE FieldLists(_)
FieldLists(n) ==
    IF n = 1 THEN { <<h>> : h \in HourFields }
    ELSE FieldLists(n - 1) \cup
         { l \o <<f>> : l \in { k \in FieldLists(n - 1) : Len(k) = n - 1 },
                        f \in OtherFields }

TimeInputs == { JoinColon(l) : l \in FieldLists(MaxParts) }

InitTime ==
    /\ files = NoFiles
    /\ req \in { [t |-> x] : x \in TimeInputs }
    /\ resp = <<>>
    /\ pc = "call"

\* One application of AdjustTime: to the input first, then to its own result.
Normalize ==
    /\ pc = "call"
    /\ Len(resp) < 2
    /\ resp' = Append(resp, AdjustTime(IF resp = <<>> THEN req.t ELSE resp[Len(resp)]))
    /\ UNCHANGED <<files, req, pc>>

NextTime == Normalize

SpecTime == InitTime /\ [][NextTime]_vars

\* The shape HH:MM:SS as the code tests it: three fields, an integer hour.
HasShape(t) == Len(Split(t)) = 3 /\ Atoi(Split(t)[1]).ok

HourOf(t) == Atoi(Split(t)[1]).val

\* C6: AdjustTime is idempotent on already-normalized times: for an input
\* of shape HH:MM:SS with hour below 24, and for an input not of that
\* shape, applying AdjustTime twice gives what applying it once gives.
C6_Idempotent ==
    (Len(resp) = 2 /\ (~HasShape(req.t) \/ HourOf(req.t) < 24))
        => resp[2] = resp[1]

\* A single-digit hour has been padded by the first application and the
\* second application left the padded time alone.
C6_Witness ==
    /\ Len(resp) = 2
    /\ HasShape(req.t) /\ HourOf(req.t) < 24
    /\ resp[1] # req.t
    /\ resp[2] = resp[1]

\* C3: for an input of shape HH:MM:SS with hour >= 24 the result is on the
\* 0-23 clock: a two-digit hour between 00 and 23, minutes and seconds
\* unchanged.
C3_Clock ==
    (Len(resp) >= 1 /\ HasShape(req.t) /\ HourOf(req.t) >= 24)
        => LET out == Split(resp[1])
           IN  /\ Len(out) = 3
               /\ Len(out[1]) = 2 /\ AllDigits(out[1])
               /\ DigitsValue(out[1]) \in 0..23
               /\ out[2] = Split(req.t)[2]
               /\ out[3] = Split(req.t)[3]
====
